---------------------------- MODULE Spec2Model ----------------------------
(***************************************************************************)
(* Model of the futures position controller (S1 band engine) and of the    *)
(* position-limit risk classifier of GridBNB-USDT.                         *)
(*                                                                         *)
(* Units.  Prices and balances are whole USDT.  Contract amounts are       *)
(* counted in units of 1/ContractScale contract, so that the controller's  *)
(* 3-decimal flooring and its 0.001 minimum are exact integer operations.  *)
(* Ratios are kept as exact fractions and compared by cross-multiplying.   *)
(* Python's None, a value float() rejects and a call that raises are the   *)
(* negative sentinels None, Bad and Raise; every real price, balance and   *)
(* contract amount the model draws is >= 0.  The variable last keeps what  *)
(* the most recent call read from its collaborators and what it did, with  *)
(* Unread for an input the call returned without reading.                  *)
(***************************************************************************)
EXTENDS Integers, Sequences, FiniteSets, TLC

VARIABLES
    s1_daily_high,            \* PositionControllerFutures.s1_daily_high
    s1_daily_low,             \* PositionControllerFutures.s1_daily_low
    s1_last_data_update_ts,   \* PositionControllerFutures.s1_last_data_update_ts
    now,                      \* the wall clock read by time.time()
    min_limit_warning_logged, \* AdvancedRiskManager._min_limit_warning_logged
    max_limit_warning_logged, \* AdvancedRiskManager._max_limit_warning_logged
    last_position_ratio,      \* AdvancedRiskManager.last_position_ratio
    last                      \* what the most recent operation read and did

controllerVars == <<s1_daily_high, s1_daily_low, s1_last_data_update_ts, now>>
riskVars == <<min_limit_warning_logged, max_limit_warning_logged,
              last_position_ratio>>
vars == <<controllerVars, riskVars, last>>

-----------------------------------------------------------------------------
(* Sentinels and program constants *)

None == -1
Bad == -2
\* the awaited collaborator call raised an exception
Raise == -3
\* an input the call never got to read
Unread == 0 - 4
\* a key the dict does not have
Absent == 0 - 5

\* scaled-down s1_lookback (52 in the source): the number of completed candles
s1_lookback == 2
daily_update_interval == 86040
HalfInterval == daily_update_interval \div 2

\* the clock at construction: any value >= daily_update_interval behaves alike
StartTime == 20000 * daily_update_interval
MaxTicks == 2
MaxTime == StartTime + MaxTicks * HalfInterval

s1_sell_target_pct == 50      \* 0.50, in percent
s1_buy_target_pct == 70       \* 0.70, in percent
leverage == 10

\* precision = 3, factor = 10 ** precision
precision == 3
factor == 10 ^ precision
\* contract amounts are integers in units of 1/ContractScale contract
ContractScale == 10 * factor
\* min_notional = 10 USDT, min_contracts = 0.001
min_notional == 10
min_contracts == ContractScale \div 1000

\* settings.MAX_POSITION_RATIO = 0.8, settings.MIN_POSITION_RATIO = 0.1, in percent
MAX_POSITION_RATIO == 80
MIN_POSITION_RATIO == 10
\* trader.leverage, set from the symbol's configuration
trader_leverage == 10

-----------------------------------------------------------------------------
(* Daily candles returned by fetch_ohlcv: k[2] is high, k[3] is low *)

Candles ==
    { [high |-> 80, low |-> 60],
      [high |-> 40, low |-> 20] }

\* candles whose high or low float() rejects
MalformedCandles ==
    { [high |-> 40, low |-> Bad],
      [high |-> Bad, low |-> 20] }

\* fetch_ohlcv(limit = s1_lookback + 2) returns at most limit candles
KlineLimit == s1_lookback + 2

\* every series of well-formed candles, and the series of s1_lookback + 1
\* candles with one malformed candle at any one place
KlineSeries ==
    UNION { [1..n -> Candles] : n \in 0..KlineLimit }
        \cup { [i \in 1..(s1_lookback + 1) |->
                    IF i = j THEN c ELSE [high |-> 40, low |-> 20]] :
                 j \in 1..(s1_lookback + 1), c \in MalformedCandles }

\* the outcomes of the awaited fetch_ohlcv call
FetchResults ==
    { [kind |-> "raise", klines |-> <<>>], [kind |-> "none", klines |-> <<>>] }
        \cup { [kind |-> "list", klines |-> ks] : ks \in KlineSeries }

NoFetch == [kind |-> "skipped", klines |-> <<>>]

-----------------------------------------------------------------------------
(* _fetch_and_calculate_s1_levels *)

RECURSIVE MaxHigh(_)
MaxHigh(ks) ==
    IF Len(ks) = 1 THEN ks[1].high
    ELSE LET m == MaxHigh(Tail(ks)) IN IF ks[1].high > m THEN ks[1].high ELSE m

RECURSIVE MinLow(_)
MinLow(ks) ==
    IF Len(ks) = 1 THEN ks[1].low
    ELSE LET m == MinLow(Tail(ks)) IN IF ks[1].low < m THEN ks[1].low ELSE m

\* mutant: klines[-s1_lookback:], the newest candle included
relevant_klines_newest(klines) ==
    SubSeq(klines, Len(klines) - s1_lookback + 1, Len(klines))

\* klines[-(s1_lookback + 1) : -1]
relevant_klines(klines) ==
    SubSeq(klines, Len(klines) - s1_lookback, Len(klines) - 1)

\* float(k[2]) raises on some candle of the slice
HighRaises(ks) == \E i \in 1..Len(ks) : ks[i].high = Bad
\* float(k[3]) raises on some candle of the slice
LowRaises(ks) == \E i \in 1..Len(ks) : ks[i].low = Bad

\* mutant: a refresh that fails stamps its attempt
StampAfterFailure_attempt(t) == t

\* s1_last_data_update_ts after a call that returns False: line 62 is the
\* only assignment, and it is not reached
StampAfterFailure(t) == s1_last_data_update_ts

\* The band after one call, and the call's return value.  The three
\* assignments are made one after the other: an exception raised while the
\* lows are parsed leaves the high already assigned.
fetch_and_calculate_s1_levels(fetch, t) ==
    LET keep == [high |-> s1_daily_high, low |-> s1_daily_low,
                 ts |-> StampAfterFailure(t), ok |-> FALSE]
    IN  IF fetch.kind = "raise" THEN keep
        ELSE IF fetch.kind = "none" \/ Len(fetch.klines) < s1_lookback + 1 THEN keep
        ELSE LET rel == relevant_klines(fetch.klines)
             IN  IF Len(rel) < s1_lookback THEN keep
                 ELSE IF HighRaises(rel) THEN keep
                 ELSE IF LowRaises(rel) THEN [keep EXCEPT !.high = MaxHigh(rel)]
                 ELSE [high |-> MaxHigh(rel), low |-> MinLow(rel),
                       ts |-> t, ok |-> TRUE]

\* mutant: the gate compares with half the interval
RefreshDue_half == now - s1_last_data_update_ts >= HalfInterval

\* the staleness gate of update_daily_s1_levels
RefreshDue == now - s1_last_data_update_ts >= daily_update_interval

\* update_daily_s1_levels: t is the clock when the awaited fetch has returned
update_daily_s1_levels(fetch, t) ==
    IF RefreshDue
    THEN LET r == fetch_and_calculate_s1_levels(fetch, t)
         IN  /\ s1_daily_high' = r.high
             /\ s1_daily_low' = r.low
             /\ s1_last_data_update_ts' = r.ts
             /\ now' = t
             /\ last' = [op |-> "update", fetched |-> TRUE, fetch |-> fetch,
                         ok |-> r.ok]
             /\ UNCHANGED riskVars
    ELSE /\ UNCHANGED <<s1_daily_high, s1_daily_low, s1_last_data_update_ts, now>>
         /\ last' = [op |-> "update", fetched |-> FALSE, fetch |-> fetch,
                     ok |-> FALSE]
         /\ UNCHANGED riskVars

UpdateDailyLevels ==
    \E fetch \in (IF RefreshDue THEN FetchResults ELSE {NoFetch}) :
        \E t \in (IF fetch_and_calculate_s1_levels(fetch, now).ok
                  THEN {now, now + HalfInterval} ELSE {now}) :
            /\ t <= MaxTime
            /\ update_daily_s1_levels(fetch, t)

\* the clock advances between operations
Tick ==
    /\ now + HalfInterval <= MaxTime
    /\ now' = now + HalfInterval
    /\ UNCHANGED <<s1_daily_high, s1_daily_low, s1_last_data_update_ts, last>>
    /\ UNCHANGED riskVars


-----------------------------------------------------------------------------
(* Inputs of check_and_execute *)

RiskStates == {"ALLOW_ALL", "ALLOW_SELL_ONLY", "ALLOW_BUY_ONLY"}

\* trader.current_price: None, 0, or a mark price
PriceVals == {None, 0, 10, 50, 90}

\* fetch_positions: the position the exchange holds for the symbol (side "none"
\* with 0 contracts: no entry for the symbol), and whether the call raises
HeldPositions ==
    { [side |-> "none", contracts |-> 0],
      [side |-> "long", contracts |-> 10 * ContractScale],
      [side |-> "long", contracts |-> 12 * ContractScale],
      \* half a thousandth, and a tenth, of a contract above 10 contracts
      [side |-> "long", contracts |-> 10 * ContractScale + 5],
      [side |-> "long", contracts |-> 10 * ContractScale + 1000],
      [side |-> "short", contracts |-> 10 * ContractScale] }

PositionResults ==
    { [raises |-> FALSE, side |-> p.side, contracts |-> p.contracts] :
        p \in HeldPositions }
    \cup { [raises |-> TRUE, side |-> p.side, contracts |-> p.contracts] :
              p \in { q \in HeldPositions : q.contracts = 10 * ContractScale } }

PosUnread == [raises |-> FALSE, side |-> "unread", contracts |-> Unread]

\* fetch_balance()['total']['USDT'] (0 also when the key is missing), or Raise
BalanceResults == {Raise, 0, 100}
\* the balance read again by the target sizing may have changed
BalanceResults2 == {Raise, 0, 100, 200}

\* create_futures_order: raises, or returns the order: "ok" with its id,
\* average and filled, "bare" with its id alone, "null_average" with the
\* average key present and None
OrderResults == {"raise", "ok", "bare", "null_average"}
Unreached == "unreached"

\* the id the exchange gives the order
OrderId == 1

\* the order dict returned for a market order of contracts_amount at
\* current_price: filled whole, one above the mark price
OrderResponse(order, current_price, contracts_amount) ==
    IF order = "ok"
    THEN [id |-> OrderId, average |-> current_price + 1,
          filled |-> contracts_amount]
    ELSE IF order = "null_average"
    THEN [id |-> OrderId, average |-> None, filled |-> contracts_amount]
    ELSE [id |-> OrderId, average |-> Absent, filled |-> Absent]

\* trader.order_tracker: the trader has none, or add_trade returns, or raises
TrackerResults == {"absent", "ok", "raise"}

\* the trackers drawn for an order result
TrackersFor(order) ==
    IF order = "ok" THEN TrackerResults
    ELSE IF order \in {"bare", "null_average"} THEN {"ok"}
    ELSE {Unreached}

-----------------------------------------------------------------------------
(* check_and_execute and its helpers *)

Abs(x) == IF x < 0 THEN 0 - x ELSE x

\* _get_current_position: the flat position when the read raises
get_current_position(posfetch) ==
    IF posfetch.raises
    THEN [side |-> "none", contracts |-> 0]
    ELSE [side |-> posfetch.side, contracts |-> posfetch.contracts]

\* The inputs <<balance, target_pct, current_price>>, among those drawn here,
\* at which the double-precision product target_contracts * factor falls just
\* below the whole number it equals exactly: 1001 * 0.7 * 10 / 7 * 1000
\* evaluates to 1000999.9999999999, not 1001000
FloatShort ==
    { <<1001, 50, 625>>, <<1001, 50, 1250>>, <<1001, 50, 5000>>,
      <<1001, 70, 7>>, <<1001, 70, 10>>, <<1001, 70, 11>>, <<1001, 70, 13>> }

\* math.floor(target_contracts * factor), with
\* target_contracts = total_balance * target_pct * leverage / current_price
floor_scaled(target_pct, current_price, balance) ==
    ((balance * target_pct * leverage * factor) \div (100 * current_price))
        - (IF <<balance, target_pct, current_price>> \in FloatShort
           THEN 1 ELSE 0)

\* _calculate_target_position_size, in contract units; balance is what its own
\* fetch_balance call returned
calculate_target_position_size(target_pct, current_price, balance) ==
    IF balance = Raise THEN 0
    ELSE IF balance <= 0 THEN 0
    ELSE floor_scaled(target_pct, current_price, balance)
             * (ContractScale \div factor)

\* the balances and prices the target sizing is called with on its own
SizingBalances == {Raise, 0, 100, 200, 1000, 1001}
SizingPrices == {7, 10, 11, 13, 50, 90, 625, 1250, 5000, 50000}

\* One call of _calculate_target_position_size
CalculateTargetPositionSize ==
    \E target_pct \in {s1_sell_target_pct, s1_buy_target_pct} :
    \E current_price \in SizingPrices :
    \E balance \in SizingBalances :
        /\ last' = [op |-> "size", target_pct |-> target_pct,
                    current_price |-> current_price, balance |-> balance,
                    target_contracts |->
                        calculate_target_position_size(
                            target_pct, current_price, balance)]
        /\ UNCHANGED <<controllerVars, riskVars>>

\* mutant: only the high is tested
BandUnset_high_only(daily_high, daily_low) == daily_high = None

\* `self.s1_daily_high is None or self.s1_daily_low is None`
BandUnset(daily_high, daily_low) == daily_high = None \/ daily_low = None

\* `not current_price or current_price <= 0`
PriceInvalid(current_price) == current_price = None \/ current_price <= 0

\* current_position_pct > pct/100, with
\* current_position_pct = abs(contracts) * price / (total_balance * leverage)
PctAbove(contracts, current_price, total_balance, pct) ==
    Abs(contracts) * current_price * 100 > pct * ContractScale * total_balance * leverage
PctBelow(contracts, current_price, total_balance, pct) ==
    Abs(contracts) * current_price * 100 < pct * ContractScale * total_balance * leverage

\* the `if` of the high check
UpperBreach(daily_high, current_price, contracts, total_balance) ==
    /\ current_price > daily_high
    /\ PctAbove(contracts, current_price, total_balance, s1_sell_target_pct)

\* mutant: a second `if` instead of the `elif`
LowerBreach_if(daily_low, upper, current_price, contracts, total_balance) ==
    /\ current_price < daily_low
    /\ PctBelow(contracts, current_price, total_balance, s1_buy_target_pct)

\* the `elif` of the low check: reached only when the `if` was false
LowerBreach(daily_low, upper, current_price, contracts, total_balance) ==
    /\ ~upper
    /\ current_price < daily_low
    /\ PctBelow(contracts, current_price, total_balance, s1_buy_target_pct)

\* mutant: the SELL gate tests the wrong state
SellAllowed_swapped(risk_state) == risk_state # "ALLOW_SELL_ONLY"

\* `if risk_state != RiskState.ALLOW_BUY_ONLY` before the SELL adjustment
SellAllowed(risk_state) == risk_state # "ALLOW_BUY_ONLY"
\* `if risk_state != RiskState.ALLOW_SELL_ONLY` before the BUY adjustment
BuyAllowed(risk_state) == risk_state # "ALLOW_SELL_ONLY"

\* the final log line of check_and_execute
BlockedLogged(s1_action, risk_state) ==
    s1_action # "NONE" /\ risk_state \notin {"ALLOW_BUY_ONLY", "ALLOW_SELL_ONLY"}

\* mutant: the notional check is left out
BelowMinimums_size_only(contracts_amount, current_price) ==
    contracts_amount < min_contracts

\* `contracts_amount < min_contracts`, then
\* `contracts_amount * current_price < min_notional`
BelowMinimums(contracts_amount, current_price) ==
    \/ contracts_amount < min_contracts
    \/ contracts_amount * current_price < min_notional * ContractScale

\* dict.get(key, default)
Get(value, default) == IF value = Absent THEN default ELSE value

\* float(None) raises a TypeError
FloatRaises(response) ==
    \/ Get(response.average, 0) = None
    \/ Get(response.filled, 0) = None

\* the trade_info passed to add_trade
trade_info(side, contracts_amount, current_price, response) ==
    [strategy |-> "S1_Futures", side |-> side,
     price |-> Get(response.average, current_price),
     amount |-> Get(response.filled, contracts_amount),
     order_id |-> Get(response.id, None)]

\* the records a returned order adds to the tracker: none when the trader has
\* no tracker, when building trade_info raises, or when add_trade raises
record_trade(side, contracts_amount, current_price, response, tracker) ==
    IF tracker = "absent" THEN <<>>
    ELSE IF FloatRaises(response) THEN <<>>
    ELSE IF tracker = "raise" THEN <<>>
    ELSE << trade_info(side, contracts_amount, current_price, response) >>

\* _execute_futures_adjustment: what it sends and records.  called: the
\* create_futures_order call is made; orders: the orders the exchange accepted
execute_futures_adjustment(side, contracts_amount, current_price, order, tracker) ==
    LET nothing == [called |-> FALSE, orders |-> <<>>, ledger |-> <<>>]
    IN  IF contracts_amount <= 0 THEN nothing
        ELSE IF PriceInvalid(current_price) THEN nothing
        ELSE IF BelowMinimums(contracts_amount, current_price) THEN nothing
        ELSE IF order = "raise"
             THEN [called |-> TRUE, orders |-> <<>>, ledger |-> <<>>]
        ELSE [called |-> TRUE,
              orders |-> << [side |-> side, amount |-> contracts_amount] >>,
              ledger |-> record_trade(
                             side, contracts_amount, current_price,
                             OrderResponse(order, current_price, contracts_amount),
                             tracker)]

\* One call of check_and_execute with the band (daily_high, daily_low):
\* everything it read, decided and did.  balance2 is the balance its target
\* sizing reads.
check_and_execute(daily_high, daily_low, risk_state, current_price, posfetch, balance, balance2, order, tracker) ==
    LET base == [op |-> "evaluate", risk_state |-> "unread",
                 price |-> Unread, pos |-> PosUnread, balance |-> Unread,
                 balance2 |-> Unread, order |-> Unreached,
                 tracker |-> Unreached,
                 calls |-> <<>>, rules |-> <<>>, intents |-> <<>>,
                 adjusted |-> <<>>,
                 amounts |-> <<>>, orders |-> <<>>, ledger |-> <<>>,
                 blocked_logged |-> FALSE]
    IN
    IF BandUnset(daily_high, daily_low) THEN base
    ELSE IF PriceInvalid(current_price) THEN [base EXCEPT !.price = current_price]
    ELSE IF balance = Raise \/ balance <= 0
         THEN [base EXCEPT !.price = current_price, !.pos = posfetch,
                           !.balance = balance,
                           !.calls = <<"fetch_positions", "fetch_balance">>]
    ELSE
    LET current_position == get_current_position(posfetch)
        current_contracts == current_position.contracts
        current_side == current_position.side
        upper == UpperBreach(daily_high, current_price, current_contracts,
                             balance)
        lower == LowerBreach(daily_low, upper, current_price, current_contracts,
                             balance)
        sell_target == calculate_target_position_size(
                           s1_sell_target_pct, current_price, balance2)
        buy_target == calculate_target_position_size(
                          s1_buy_target_pct, current_price, balance2)
        sell == upper /\ current_side = "long" /\ current_contracts > sell_target
        buy == lower /\ current_side # "short" /\ current_contracts < buy_target
        reduce_amount == current_contracts - sell_target
        increase_amount == buy_target - current_contracts
        sell_exec == IF sell /\ SellAllowed(risk_state)
                     THEN execute_futures_adjustment(
                              "SELL", reduce_amount, current_price, order,
                              tracker)
                     ELSE [called |-> FALSE, orders |-> <<>>, ledger |-> <<>>]
        buy_exec == IF buy /\ BuyAllowed(risk_state)
                    THEN execute_futures_adjustment(
                             "BUY", increase_amount, current_price, order,
                             tracker)
                    ELSE [called |-> FALSE, orders |-> <<>>, ledger |-> <<>>]
        sized == upper \/ lower
        called == sell_exec.called \/ buy_exec.called
        s1_action == IF buy THEN "BUY" ELSE IF sell THEN "SELL" ELSE "NONE"
    IN  [base EXCEPT
            !.price = current_price, !.pos = posfetch, !.balance = balance,
            !.balance2 = IF sized THEN balance2 ELSE Unread,
            !.risk_state = IF sell \/ buy THEN risk_state ELSE "unread",
            !.order = IF called THEN order ELSE Unreached,
            !.tracker = IF called THEN tracker ELSE Unreached,
            !.calls = <<"fetch_positions", "fetch_balance">>
                        \o (IF upper THEN <<"fetch_balance">> ELSE <<>>)
                        \o (IF lower THEN <<"fetch_balance">> ELSE <<>>)
                        \o (IF sell_exec.called
                            THEN <<"create_futures_order">> ELSE <<>>)
                        \o (IF buy_exec.called
                            THEN <<"create_futures_order">> ELSE <<>>),
            !.rules = (IF upper THEN <<"upper">> ELSE <<>>)
                        \o (IF lower THEN <<"lower">> ELSE <<>>),
            !.intents = (IF sell THEN <<"SELL">> ELSE <<>>)
                          \o (IF buy THEN <<"BUY">> ELSE <<>>),
            !.adjusted = (IF sell /\ SellAllowed(risk_state)
                          THEN <<"SELL">> ELSE <<>>)
                           \o (IF buy /\ BuyAllowed(risk_state)
                               THEN <<"BUY">> ELSE <<>>),
            !.amounts = (IF sell THEN <<reduce_amount>> ELSE <<>>)
                          \o (IF buy THEN <<increase_amount>> ELSE <<>>),
            !.orders = sell_exec.orders \o buy_exec.orders,
            !.ledger = sell_exec.ledger \o buy_exec.ledger,
            !.blocked_logged = BlockedLogged(s1_action, risk_state)]

\* The call reads the account only with the band set and a valid price
ReadsAccount(daily_high, daily_low, current_price) ==
    ~BandUnset(daily_high, daily_low) /\ ~PriceInvalid(current_price)

\* Every outcome of one call with the band (daily_high, daily_low): one for
\* each combination of what the trader, the exchange and the tracker return to
\* the reads the call gets to make, given what it has read so far
Outcomes(daily_high, daily_low) ==
    UNION { UNION { UNION { UNION { UNION { UNION {
        { check_and_execute(daily_high, daily_low, risk_state, current_price,
                            posfetch, balance, balance2, order, tracker) :
            tracker \in TrackersFor(order) } :
        order \in
            (IF check_and_execute(daily_high, daily_low, risk_state,
                                  current_price, posfetch, balance, balance2,
                                  "raise", Unreached).order = "raise"
             THEN OrderResults ELSE {Unreached}) } :
        risk_state \in
            (IF check_and_execute(daily_high, daily_low, "unread",
                                  current_price, posfetch, balance, balance2,
                                  Unreached, Unreached).intents # <<>>
             THEN RiskStates ELSE {"unread"}) } :
        balance2 \in
            (IF Len(check_and_execute(daily_high, daily_low, "unread",
                                      current_price, posfetch, balance, Unread,
                                      Unreached, Unreached).calls) > 2
             THEN BalanceResults2 ELSE {Unread}) } :
        balance \in
            (IF ReadsAccount(daily_high, daily_low, current_price)
             THEN BalanceResults ELSE {Unread}) } :
        posfetch \in
            (IF ReadsAccount(daily_high, daily_low, current_price)
             THEN PositionResults ELSE {PosUnread}) } :
        current_price \in
            (IF BandUnset(daily_high, daily_low)
             THEN {Unread} ELSE PriceVals) }

\* the values s1_daily_high and s1_daily_low take
BandLevels ==
    {None} \cup { c.high : c \in Candles } \cup { c.low : c \in Candles }

\* the outcomes of a call, by the band it is made with
OutcomeTable ==
    [daily_high \in BandLevels, daily_low \in BandLevels |->
        Outcomes(daily_high, daily_low)]

CheckAndExecute ==
    \E outcome \in OutcomeTable[s1_daily_high, s1_daily_low] :
        /\ last' = outcome
        /\ UNCHANGED <<controllerVars, riskVars>>

-----------------------------------------------------------------------------------------------------------------------------------------------------------------------------------------------------------------------------
(* AdvancedRiskManager.check_position_limits *)

\* the futures balance snapshot passed in: free and used USDT; ok is FALSE for
\* a snapshot the .get() chain or float() raises on
AccountSnapshots ==
    { [ok |-> FALSE, free |-> 0, used |-> 0] }
        \cup { [ok |-> TRUE, free |-> f, used |-> 40] : f \in {0, 60} }

\* the first fetch_positions call, read for the symbol's notional (0 when the
\* exchange lists no position for the symbol): raises, or the notional
ValueReads ==
    { [raises |-> TRUE, notional |-> 0] }
        \cup { [raises |-> FALSE, notional |-> n] :
                 n \in {0, 50, 100, 800, 801, 802, 850} }

\* the second fetch_positions call, read for unrealizedPnl
PnlReads ==
    { [raises |-> TRUE, unrealizedPnl |-> 0] }
        \cup { [raises |-> FALSE, unrealizedPnl |-> u] :
                 u \in {0, 0 - 40, 0 - 100} }

ReadUnread == [raises |-> FALSE, unrealizedPnl |-> Unread]

\* a ratio is the exact fraction num / den, den > 0
Zero == [num |-> 0, den |-> 1]
Unset == [num |-> 0, den |-> 0]

\* a > pct/100, a < pct/100
RatioAbove(a, pct) == a.num * 100 > pct * a.den
RatioBelow(a, pct) == a.num * 100 < pct * a.den
\* mutant: any change of the ratio counts
RatioMoved_at_all(a, b) == a.num * b.den # b.num * a.den

\* abs(a - b) > 0.001
RatioMoved(a, b) == Abs(a.num * b.den - b.num * a.den) * 1000 > a.den * b.den

\* _get_position_value: 0 when the read raises
get_position_value(read) ==
    IF read.raises THEN 0 ELSE Abs(read.notional)

\* mutant: only a negative total is caught
NoAssets_negative(total_assets) == total_assets < 0

\* `if total_assets <= 0`
NoAssets(total_assets) == total_assets <= 0

\* _get_position_ratio: value is read first, the snapshot parsed next, the
\* positions read again for unrealizedPnl; any exception returns 0
get_position_ratio(futures_balance, read1, read2) ==
    LET position_value == get_position_value(read1)
    IN  IF ~futures_balance.ok THEN Zero
        ELSE IF read2.raises THEN Zero
        ELSE LET total_assets == futures_balance.free + futures_balance.used
                                     + read2.unrealizedPnl
             IN  IF NoAssets(total_assets) THEN Zero
                 ELSE [num |-> position_value,
                       den |-> total_assets * trader_leverage]

\* mutant: the upper threshold is inclusive
ExceedsMax_inclusive(position_ratio) ==
    position_ratio.num * 100 >= MAX_POSITION_RATIO * position_ratio.den

\* mutant: once the upper warning is logged, a ratio equal to the maximum still
\* counts as above it
ExceedsMax_sticky(position_ratio) ==
    \/ RatioAbove(position_ratio, MAX_POSITION_RATIO)
    \/ max_limit_warning_logged /\ ~RatioBelow(position_ratio, MAX_POSITION_RATIO)

\* `position_ratio > settings.MAX_POSITION_RATIO`
ExceedsMax(position_ratio) == RatioAbove(position_ratio, MAX_POSITION_RATIO)
\* `position_ratio < settings.MIN_POSITION_RATIO`
BelowMin(position_ratio) == RatioBelow(position_ratio, MIN_POSITION_RATIO)

\* mutant: the warning is logged on every call in breach
WarningDue_always(warning_logged) == TRUE

\* `if not self._max_limit_warning_logged`, `if not self._min_limit_warning_logged`
WarningDue(warning_logged) == ~warning_logged

\* mutant: only the upper flag is looked at
RecoveredDue_max_only(min_logged, max_logged) == max_logged

\* `if self._min_limit_warning_logged or self._max_limit_warning_logged`
RecoveredDue(min_logged, max_logged) == min_logged \/ max_logged

\* mutant: a breach branch leaves the other direction's flag as it was
OtherFlagAfterBreach_kept(other_logged) == other_logged

\* "无论是否打印日志，都要重置另一个标记": a breach branch sets the other
\* direction's flag to False
OtherFlagAfterBreach(other_logged) == FALSE

\* One call: the state it leaves and what it returned and logged.
\* body_raises: an exception is raised in the body after the ratio is
\* computed, at its first read of settings (the status line's when that line
\* is due, the upper check's otherwise).
check_position_limits(futures_balance, read1, read2, body_raises) ==
    LET position_ratio == get_position_ratio(futures_balance, read1, read2)
        previous == IF last_position_ratio = Unset
                    THEN position_ratio ELSE last_position_ratio
        moved == RatioMoved(position_ratio, previous)
        obs == [op |-> "check", futures_balance |-> futures_balance,
                read1 |-> read1,
                read2 |-> IF futures_balance.ok THEN read2 ELSE ReadUnread,
                body_raises |-> body_raises, ratio |-> position_ratio,
                status_logged |-> FALSE, warned |-> "none",
                recovered_logged |-> FALSE, error_logged |-> FALSE,
                result |-> "ALLOW_ALL"]
    IN  IF body_raises
        THEN [min |-> FALSE, max |-> FALSE, ratio |-> previous,
              obs |-> [obs EXCEPT !.error_logged = TRUE]]
        ELSE IF ExceedsMax(position_ratio)
        THEN [min |-> OtherFlagAfterBreach(min_limit_warning_logged),
              max |-> TRUE,
              ratio |-> IF moved THEN position_ratio ELSE previous,
              obs |-> [obs EXCEPT
                         !.result = "ALLOW_SELL_ONLY",
                         !.status_logged = moved,
                         !.warned = IF WarningDue(max_limit_warning_logged)
                                    THEN "upper" ELSE "none"]]
        ELSE IF BelowMin(position_ratio)
        THEN [min |-> TRUE,
              max |-> OtherFlagAfterBreach(max_limit_warning_logged),
              ratio |-> IF moved THEN position_ratio ELSE previous,
              obs |-> [obs EXCEPT
                         !.result = "ALLOW_BUY_ONLY",
                         !.status_logged = moved,
                         !.warned = IF WarningDue(min_limit_warning_logged)
                                    THEN "lower" ELSE "none"]]
        ELSE [min |-> FALSE, max |-> FALSE,
              ratio |-> IF moved THEN position_ratio ELSE previous,
              obs |-> [obs EXCEPT
                         !.status_logged = moved,
                         !.recovered_logged =
                             RecoveredDue(min_limit_warning_logged,
                                          max_limit_warning_logged)]]

CheckPositionLimits ==
    \E futures_balance \in AccountSnapshots :
    \E read1 \in ValueReads :
    \E read2 \in (IF futures_balance.ok THEN PnlReads ELSE {ReadUnread}) :
    \E body_raises \in BOOLEAN :
        LET r == check_position_limits(futures_balance, read1, read2, body_raises)
        IN  /\ min_limit_warning_logged' = r.min
            /\ max_limit_warning_logged' = r.max
            /\ last_position_ratio' = r.ratio
            /\ last' = r.obs
            /\ UNCHANGED controllerVars

-----

Init ==
    /\ s1_daily_high = None
    /\ s1_daily_low = None
    /\ s1_last_data_update_ts = 0
    /\ now = StartTime
    /\ min_limit_warning_logged = FALSE
    /\ max_limit_warning_logged = FALSE
    /\ last_position_ratio = Unset
    /\ last = [op |-> "init"]

Next ==
    \/ Tick
    \/ UpdateDailyLevels
    \/ CheckAndExecute

Spec == Init /\ [][Next]_vars

\* the band alone: the clock and the refresh
NextBand ==
    \/ Tick
    \/ UpdateDailyLevels

SpecBand == Init /\ [][NextBand]_vars

\* the risk classifier alone
NextRisk == CheckPositionLimits

SpecRisk == Init /\ [][NextRisk]_vars

\* the target sizing alone
NextSizing == CalculateTargetPositionSize

SpecSizing == Init /\ [][NextSizing]_vars

\* a call of update_daily_s1_levels whose refresh returns True
RefreshSucceeds == UpdateDailyLevels /\ last'.ok

\* The scheduler keeps calling update_daily_s1_levels, and the candle read
\* does not fail for ever: a refresh that stays possible is in the end made
\* with a read that returns at least s1_lookback + 1 well-formed candles
Scheduling == WF_vars(RefreshSucceeds)

\* the band under that scheduling; check_and_execute leaves the band, the
\* timestamp and the clock alone, and its calls are left out
SpecRetry == Init /\ [][NextBand]_vars /\ Scheduling

-----------------------------------------------------------------------------
(* Exceptions: where a call's collaborators raised, and the try blocks *)

\* the statements at which an exception was raised during the call obs
RaisedAt(obs) ==
    IF obs.op = "update"
    THEN (IF obs.fetch.kind = "raise" THEN {"fetch_ohlcv"} ELSE {})
         \cup (IF obs.fetch.kind = "none" THEN {"len(klines)"} ELSE {})
         \cup (IF /\ obs.fetch.kind = "list"
                  /\ Len(obs.fetch.klines) >= s1_lookback + 1
                  /\ \/ HighRaises(relevant_klines(obs.fetch.klines))
                     \/ LowRaises(relevant_klines(obs.fetch.klines))
               THEN {"float(k)"} ELSE {})
    ELSE IF obs.op = "evaluate"
    THEN (IF obs.pos.raises THEN {"fetch_positions"} ELSE {})
         \cup (IF obs.balance = Raise THEN {"fetch_balance"} ELSE {})
         \cup (IF obs.balance2 = Raise THEN {"sizing fetch_balance"} ELSE {})
         \cup (IF obs.order = "raise" THEN {"create_futures_order"} ELSE {})
         \cup (IF /\ obs.order \in {"ok", "bare", "null_average"}
                  /\ obs.tracker # "absent"
                  /\ FloatRaises(OrderResponse(obs.order, obs.price, 0))
               THEN {"float(order)"} ELSE {})
         \cup (IF obs.tracker = "raise" THEN {"add_trade"} ELSE {})
    ELSE IF obs.op = "check"
    THEN (IF obs.read1.raises THEN {"value fetch_positions"} ELSE {})
         \cup (IF ~obs.futures_balance.ok THEN {"futures_balance.get"} ELSE {})
         \cup (IF obs.read2.raises THEN {"ratio fetch_positions"} ELSE {})
         \cup (IF obs.body_raises THEN {"settings"} ELSE {})
    ELSE {}

\* mutant: the trade is recorded after the try block
TrySites_order_only ==
    {"fetch_ohlcv", "len(klines)", "float(k)", "fetch_positions",
     "fetch_balance", "sizing fetch_balance", "create_futures_order",
     "value fetch_positions", "futures_balance.get", "ratio fetch_positions",
     "settings"}

\* the statements inside a try block whose `except Exception` handler logs
\* and returns
TrySites ==
    {"fetch_ohlcv", "len(klines)", "float(k)", "fetch_positions",
     "fetch_balance", "sizing fetch_balance", "create_futures_order",
     "float(order)", "add_trade",
     "value fetch_positions", "futures_balance.get", "ratio fetch_positions",
     "settings"}

\* an exception raised during the call obs reaches the caller
Escaped(obs) == \E site \in RaisedAt(obs) : site \notin TrySites

-----------------------------------------------------------------------------
(* Properties *)

band == <<s1_daily_high, s1_daily_low, s1_last_data_update_ts>>

Evaluated == last.op = "evaluate"
Sides(orders) == { orders[i].side : i \in 1..Len(orders) }
SeqSet(q) == { q[i] : i \in 1..Len(q) }
SetMax(S) == CHOOSE x \in S : \A y \in S : y <= x
SetMin(S) == CHOOSE x \in S : \A y \in S : x <= y

\* targetContracts = equity * targetPct * leverage / price, floored to 3
\* decimals: whole thousandths of a contract, in contract units
TargetContracts(equity, pct, price) ==
    ((equity * pct * leverage * 10) \div price) * (ContractScale \div 1000)

\* the equity a call sized its target from: the balance its sizing read when
\* that read gave one, the balance it computed the ratio from otherwise
SizingEquity == IF last.balance2 > 0 THEN last.balance2 ELSE last.balance

RaisedInCall ==
    \/ last.pos.raises
    \/ last.balance = Raise
    \/ last.balance2 = Raise
    \/ last.order = "raise"

\* C1: an evaluate call in which a collaborator call raised (the position
\* read, either balance read, or the order submission) submits no order and
\* appends no ledger record.
C1_RaiseIsNoOp ==
    (Evaluated /\ RaisedInCall) => (last.orders = <<>> /\ last.ledger = <<>>)

\* C3: no SELL is executed under ALLOW_BUY_ONLY, no BUY under ALLOW_SELL_ONLY,
\* and under ALLOW_ALL every intent produced is passed to execution.
C3_RiskGate ==
    Evaluated =>
        /\ last.risk_state = "ALLOW_BUY_ONLY" =>
              "SELL" \notin (SeqSet(last.adjusted) \cup Sides(last.orders))
        /\ last.risk_state = "ALLOW_SELL_ONLY" =>
              "BUY" \notin (SeqSet(last.adjusted) \cup Sides(last.orders))
        /\ last.risk_state = "ALLOW_ALL" => last.adjusted = last.intents

C3_Witness ==
    /\ Evaluated
    /\ last.risk_state = "ALLOW_BUY_ONLY"
    /\ last.intents = <<"SELL">>
    /\ last.orders = <<>>

\* C4: one evaluate call triggers at most one breach rule, produces at most
\* one intent and submits at most one order; when the upper rule triggered,
\* the lower one was not evaluated.
C4_AtMostOneIntent ==
    Evaluated =>
        /\ Len(last.rules) <= 1
        /\ Len(last.intents) <= 1
        /\ Len(last.orders) <= 1
        /\ Len(last.calls) <= 4

\* both breach conditions hold at once (the band is inverted), one SELL is sent
C4_Witness ==
    /\ Evaluated
    /\ last.price > s1_daily_high
    /\ last.price < s1_daily_low
    /\ PctAbove(last.pos.contracts, last.price, last.balance, s1_sell_target_pct)
    /\ PctBelow(last.pos.contracts, last.price, last.balance, s1_buy_target_pct)
    /\ last.intents = <<"SELL">>
    /\ Len(last.orders) = 1

\* C6: a refresh attempt that does not succeed leaves dailyHigh, dailyLow and
\* lastUpdateTimestamp as they were.
C6_FailSoftAtomic ==
    [][ (last'.op = "update" /\ last'.fetched /\ ~last'.ok) => band' = band ]_vars

\* C7: a refresh that receives n >= lookback + 1 candles whose lookback
\* candles before the newest are numeric sets dailyHigh to their maximum high
\* and dailyLow to their minimum low (0-based indices n-lookback-1 .. n-2);
\* one that receives fewer than lookback + 1 candles leaves the band unchanged.
C7_BandComputation ==
    [][ (last'.op = "update" /\ last'.fetched /\ last'.fetch.kind = "list") =>
          LET ks == last'.fetch.klines
              n == Len(ks)
              window == { ks[i + 1] : i \in (n - s1_lookback - 1)..(n - 2) }
          IN  /\ (n >= s1_lookback + 1
                    /\ \A k \in window : k.high # Bad /\ k.low # Bad) =>
                      /\ s1_daily_high' = SetMax({ k.high : k \in window })
                      /\ s1_daily_low' = SetMin({ k.low : k \in window })
              /\ n < s1_lookback + 1 => band' = band ]_vars

\* the newest candle is higher than the band computed from the series
C7_Witness ==
    /\ last.op = "update"
    /\ last.ok
    /\ Len(last.fetch.klines) = s1_lookback + 2
    /\ last.fetch.klines[s1_lookback + 2].high > s1_daily_high
    /\ last.fetch.klines[s1_lookback + 2].low > s1_daily_low

\* C8: a call of updateDailyLevels requests candles or changes the band only
\* if now - lastUpdateTimestamp >= refreshInterval when it is called, and a
\* recomputation is stamped at least refreshInterval after the previous one.
C8_StalenessGate ==
    [][ (band' # band \/ (last' # last /\ last'.op = "update" /\ last'.fetched)) =>
          /\ now - s1_last_data_update_ts >= daily_update_interval
          /\ s1_last_data_update_ts' # s1_last_data_update_ts =>
                s1_last_data_update_ts' - s1_last_data_update_ts
                    >= daily_update_interval ]_vars

\* a call made while the band was fresh: no candles requested
C8_Witness ==
    /\ last.op = "update"
    /\ ~last.fetched
    /\ s1_daily_high # None
    /\ now > s1_last_data_update_ts

Checked == last.op = "check"

ReadRaised ==
    \/ last.read1.raises
    \/ last.read2.raises
    \/ ~last.futures_balance.ok
    \/ last.body_raises

\* C2: a checkPositionLimits call in which reading the snapshots or the
\* positions, or computing the ratio, raised returns ALLOW_ALL and leaves both
\* breach-warning flags false.
C2_FailOpen ==
    (Checked /\ ReadRaised) =>
        /\ last.result = "ALLOW_ALL"
        /\ ~min_limit_warning_logged
        /\ ~max_limit_warning_logged

\* the call read everything it asked for, and equity is positive
RatioComputed ==
    /\ Checked
    /\ ~ReadRaised
    /\ last.futures_balance.free + last.futures_balance.used
          + last.read2.unrealizedPnl > 0

\* C5: with r = |notional| / (equity * leverage) computed from what the call
\* read, the call returns ALLOW_SELL_ONLY iff r > MAX_POSITION_RATIO,
\* ALLOW_BUY_ONLY iff r < MIN_POSITION_RATIO, ALLOW_ALL otherwise.
C5_Classification ==
    RatioComputed =>
        LET equity == last.futures_balance.free + last.futures_balance.used
                        + last.read2.unrealizedPnl
            n == Abs(last.read1.notional) * 100
            d == equity * trader_leverage
        IN  /\ last.result = "ALLOW_SELL_ONLY" <=> n > MAX_POSITION_RATIO * d
            /\ last.result = "ALLOW_BUY_ONLY" <=> n < MIN_POSITION_RATIO * d
            /\ last.result = "ALLOW_ALL" <=>
                  (n <= MAX_POSITION_RATIO * d /\ n >= MIN_POSITION_RATIO * d)

\* a ratio exactly at MAX_POSITION_RATIO is classified ALLOW_ALL
C5_Witness ==
    /\ RatioComputed
    /\ last.ratio.num * 100 = MAX_POSITION_RATIO * last.ratio.den
    /\ last.result = "ALLOW_ALL"

SellSent == Evaluated /\ "SELL" \in Sides(last.orders)
BuySent == Evaluated /\ "BUY" \in Sides(last.orders)

\* C9: a SELL order is submitted only with price > dailyHigh, positionRatio >
\* sellTargetPct, a long position above the target, and for the amount
\* currentContracts - targetContracts, the target being sized from the
\* account equity: the position is never sold below the sell target.
C9_SellOnlyToTarget ==
    SellSent =>
        LET target == TargetContracts(SizingEquity, s1_sell_target_pct, last.price)
        IN  /\ last.price > s1_daily_high
            /\ PctAbove(last.pos.contracts, last.price, last.balance,
                        s1_sell_target_pct)
            /\ last.pos.side = "long"
            /\ last.pos.contracts > target
            /\ last.orders[1].amount = last.pos.contracts - target

\* C10: a BUY order is submitted only with price < dailyLow, positionRatio <
\* buyTargetPct, the exchange's position not short and below the target, and
\* for the amount targetContracts - currentContracts, currentContracts being
\* the position the exchange holds.
C10_BuyOnlyToTarget ==
    BuySent =>
        LET target == TargetContracts(SizingEquity, s1_buy_target_pct, last.price)
        IN  /\ last.price < s1_daily_low
            /\ PctBelow(last.pos.contracts, last.price, last.balance,
                        s1_buy_target_pct)
            /\ last.pos.side # "short"
            /\ last.pos.contracts < target
            /\ last.orders[1].amount = target - last.pos.contracts

\* C11: an evaluate call whose intent has an amount below the minimum contract
\* size, or an amount * price below the minimum notional, submits no order and
\* appends no ledger record; every order submitted is for the intent's own
\* amount, which is >= the minimum size and whose notional is >= the minimum.
C11_OrderGating ==
    Evaluated =>
        /\ \A i \in 1..Len(last.amounts) :
              (\/ last.amounts[i] < min_contracts
               \/ last.amounts[i] * last.price < min_notional * ContractScale) =>
                  (last.orders = <<>> /\ last.ledger = <<>>)
        /\ \A i \in 1..Len(last.orders) :
              /\ last.orders[i].amount = last.amounts[i]
              /\ last.orders[i].amount >= min_contracts
              /\ last.orders[i].amount * last.price
                    >= min_notional * ContractScale

\* an intent of 0.1 contract at price 50 (notional 5 < 10) passed to execution
C11_Witness ==
    /\ Evaluated
    /\ last.adjusted = <<"SELL">>
    /\ last.amounts[1] >= min_contracts
    /\ last.amounts[1] * last.price < min_notional * ContractScale
    /\ last.orders = <<>>

\* the order dict the call's create_futures_order returned
Response(i) == OrderResponse(last.order, last.price, last.orders[i].amount)
Carried(value) == value # Absent /\ value # None

\* C12: in an evaluate call whose trader has a ledger that accepts records,
\* every order create_futures_order returned has exactly one ledger record,
\* with the strategy tag, the order's side and the id, fill price and filled
\* amount the response carries; a call without a returned order appends none.
C12_LedgerConsistency ==
    (Evaluated /\ last.tracker \in {"ok", Unreached}) =>
        /\ Len(last.ledger) = Len(last.orders)
        /\ \A i \in 1..Len(last.ledger) :
              /\ last.ledger[i].strategy = "S1_Futures"
              /\ last.ledger[i].side = last.orders[i].side
              /\ Carried(Response(i).id) =>
                    last.ledger[i].order_id = Response(i).id
              /\ Carried(Response(i).average) =>
                    last.ledger[i].price = Response(i).average
              /\ Carried(Response(i).filled) =>
                    last.ledger[i].amount = Response(i).filled

\* a call that got past its reads has a ratio; one that took the failure path
\* has none
HasRatio(obs) == obs.op = "check" /\ ~obs.body_raises
InUpperBreach(obs) == HasRatio(obs) /\ RatioAbove(obs.ratio, MAX_POSITION_RATIO)
InLowerBreach(obs) == HasRatio(obs) /\ RatioBelow(obs.ratio, MIN_POSITION_RATIO)
InSafeBand(obs) ==
    /\ HasRatio(obs)
    /\ ~RatioAbove(obs.ratio, MAX_POSITION_RATIO)
    /\ ~RatioBelow(obs.ratio, MIN_POSITION_RATIO)

\* C13: a checkPositionLimits call emits the upper (lower) breach warning
\* exactly when its ratio is in that breach and the call before it, if any,
\* was not: on the first call of each maximal run of consecutive calls in
\* that breach and on no other call.
C13_WarningEdge ==
    [][ last'.op = "check" =>
          /\ last'.warned = "upper" <=>
                (InUpperBreach(last') /\ ~InUpperBreach(last))
          /\ last'.warned = "lower" <=>
                (InLowerBreach(last') /\ ~InLowerBreach(last))
          /\ last'.warned \in {"upper", "lower", "none"} ]_vars

\* a later call of an upper-breach run: no warning
C13_Witness ==
    /\ InUpperBreach(last)
    /\ last.warned = "none"
    /\ max_limit_warning_logged

\* C14: a call emits the recovered notice exactly when its ratio is in the
\* safe band [MIN, MAX] and the call before it returned ALLOW_SELL_ONLY or
\* ALLOW_BUY_ONLY.
C14_RecoveredNotice ==
    [][ last'.op = "check" =>
          (last'.recovered_logged <=>
              /\ InSafeBand(last')
              /\ last.op = "check"
              /\ last.result \in {"ALLOW_SELL_ONLY", "ALLOW_BUY_ONLY"}) ]_vars

\* a call at ratio exactly MIN after a lower breach: the notice is emitted
C14_Witness ==
    /\ InSafeBand(last)
    /\ last.ratio.num * 100 = MIN_POSITION_RATIO * last.ratio.den
    /\ last.recovered_logged

NoTrade(obs) == obs.orders = <<>> /\ obs.ledger = <<>>

\* C16: an evaluate call made with dailyHigh or dailyLow unset reads nothing
\* (no price, no position, no balance) and trades nothing; one that reads a
\* missing or non-positive price, or an equity <= 0, trades nothing either.
C16_Preconditions ==
    Evaluated =>
        /\ (s1_daily_high = None \/ s1_daily_low = None) =>
              /\ NoTrade(last)
              /\ last.calls = <<>>
              /\ last.price = Unread
              /\ last.pos = PosUnread
              /\ last.balance = Unread
        /\ (last.price = None \/ (last.price # Unread /\ last.price <= 0)) =>
              NoTrade(last)
        /\ (last.balance \notin {Unread, Raise} /\ last.balance <= 0) =>
              NoTrade(last)

\* a call made with the high set and the low still unset
C16_Witness ==
    /\ Evaluated
    /\ s1_daily_high # None
    /\ s1_daily_low = None
    /\ last.calls = <<>>

\* the state the two thresholds give a ratio
Verdict(ratio) ==
    IF ratio.num * 100 > MAX_POSITION_RATIO * ratio.den THEN "ALLOW_SELL_ONLY"
    ELSE IF ratio.num * 100 < MIN_POSITION_RATIO * ratio.den THEN "ALLOW_BUY_ONLY"
    ELSE "ALLOW_ALL"
SameRatio(a, b) == a.num * b.den = b.num * a.den

\* C17: the state a call returns is the one the two thresholds give its
\* ratio, whatever breach flags and previous ratio the instance holds when it
\* is called; a call returns what the call before it returned whenever the
\* two have the same ratio.
C17_Purity ==
    [][ HasRatio(last') =>
          /\ last'.result = Verdict(last'.ratio)
          /\ (HasRatio(last) /\ SameRatio(last.ratio, last'.ratio)) =>
                last'.result = last.result ]_vars

\* a call made with a breach flag set and another previous ratio returns
\* ALLOW_ALL for a safe ratio, as a new instance does
C17_Witness ==
    /\ InSafeBand(last)
    /\ last.recovered_logged
    /\ last.status_logged
    /\ last.result = "ALLOW_ALL"

\* the call read the snapshot and both position lists, and did not fail
AllRead(obs) ==
    /\ obs.op = "check"
    /\ obs.futures_balance.ok
    /\ ~obs.read1.raises
    /\ ~obs.read2.raises
    /\ ~obs.body_raises
Equity(obs) ==
    obs.futures_balance.free + obs.futures_balance.used + obs.read2.unrealizedPnl

\* C18: a call that reads equity = free + used + unrealizedPnl <= 0 computes
\* ratio 0 and classifies it by the threshold rule: it returns ALLOW_BUY_ONLY,
\* sets the lower flag, warns if the flag was clear, and logs no error; a
\* call that reads equity > 0 computes |notional| / (equity * leverage).
C18_NonPositiveEquity ==
    [][ AllRead(last') =>
          /\ Equity(last') <= 0 =>
                /\ last'.ratio.num = 0 /\ last'.ratio.den > 0
                /\ last'.result = "ALLOW_BUY_ONLY"
                /\ min_limit_warning_logged'
                /\ ~max_limit_warning_logged'
                /\ last'.warned = "lower" <=> ~min_limit_warning_logged
                /\ last'.warned # "lower" => last'.warned = "none"
                /\ ~last'.error_logged
          /\ Equity(last') > 0 =>
                /\ last'.ratio.den > 0
                /\ last'.ratio.num * Equity(last') * trader_leverage
                      = Abs(last'.read1.notional) * last'.ratio.den ]_vars

\* a position of notional 850 held with equity 40 - 100 < 0: ALLOW_BUY_ONLY
C18_Witness ==
    /\ AllRead(last)
    /\ Equity(last) < 0
    /\ last.read1.notional > 0
    /\ last.result = "ALLOW_BUY_ONLY"
    /\ last.warned = "lower"

\* C19: for equity > 0 (and price > 0) the target is equity * targetPct *
\* leverage / price floored to whole thousandths of a contract: its notional
\* is at most equity * targetPct * leverage and falls short of it by less
\* than one thousandth of a contract times price.
C19_TargetSizing ==
    (last.op = "size" /\ last.balance > 0) =>
        LET thousandths == last.target_contracts \div (ContractScale \div 1000)
            \* equity * targetPct * leverage, times 1000
            notional == last.balance * last.target_pct * leverage * 10
        IN  /\ last.target_contracts
                  = TargetContracts(last.balance, last.target_pct,
                                    last.current_price)
            /\ thousandths * last.current_price <= notional
            /\ notional - thousandths * last.current_price < last.current_price

\* |a - b| > 0.001
Apart(a, b) == Abs(a.num * b.den - b.num * a.den) * 1000 > a.den * b.den

C21_FlagCorrespondence ==
    /\ Checked =>
          /\ max_limit_warning_logged <=> last.result = "ALLOW_SELL_ONLY"
          /\ min_limit_warning_logged <=> last.result = "ALLOW_BUY_ONLY"
    /\ ~(min_limit_warning_logged /\ max_limit_warning_logged)
    /\ last.op = "init" =>
          (~min_limit_warning_logged /\ ~max_limit_warning_logged)

\* a call that computed a ratio above the maximum and then failed: it
\* returned ALLOW_ALL and left both flags false
C21_Witness ==
    /\ Checked
    /\ last.body_raises
    /\ RatioAbove(last.ratio, MAX_POSITION_RATIO)
    /\ last.result = "ALLOW_ALL"
    /\ ~max_limit_warning_logged
    /\ ~min_limit_warning_logged

\* the target percentage of an order's side
TargetPct(side) ==
    IF side = "SELL" THEN s1_sell_target_pct ELSE s1_buy_target_pct

\* C22: the equity an evaluate call sizes its target from is the one equity
\* observation its breach test used: every order it submits is for
\* |currentContracts - floor(equity * targetPct * leverage / price)| with the
\* equity that passed the breach test, whatever the account balance does
\* between the call's suspension points.
C22_SingleEquityObservation ==
    Evaluated =>
        \A i \in 1..Len(last.orders) :
            last.orders[i].amount =
                Abs(get_current_position(last.pos).contracts
                      - TargetContracts(last.balance,
                                        TargetPct(last.orders[i].side),
                                        last.price))

\* the call produced an intent and the risk gate kept it from execution
Suppressed(obs) ==
    \/ obs.intents = <<"SELL">> /\ obs.risk_state = "ALLOW_BUY_ONLY"
    \/ obs.intents = <<"BUY">> /\ obs.risk_state = "ALLOW_SELL_ONLY"

\* C23: an evaluate call emits the "signal detected but blocked by risk
\* control" line exactly when it produced a SELL or BUY intent that the risk
\* gate suppressed, and never when the intent was passed to execution.
C23_BlockedLog ==
    Evaluated =>
        /\ last.blocked_logged <=> Suppressed(last)
        /\ last.adjusted # <<>> => ~last.blocked_logged

BandSet == s1_daily_high # None /\ s1_daily_low # None
FailedRefresh(obs) == obs.op = "update" /\ obs.fetched /\ ~obs.ok

\* C24: lastUpdateTimestamp is advanced only by a refresh that recomputed
\* both dailyHigh and dailyLow; after a failed refresh the staleness gate is
\* open and stays open until a refresh succeeds, so the next updateDailyLevels
\* call requests the candles again; and when the scheduler keeps calling and
\* the candle reads eventually succeed with at least lookback + 1 candles,
\* the band eventually is set, stays set, and evaluate no longer returns
\* before reading the price.
C24_RefreshRetry ==
    /\ [][ s1_last_data_update_ts' # s1_last_data_update_ts =>
              /\ last'.op = "update" /\ last'.ok
              /\ s1_daily_high' = MaxHigh(relevant_klines(last'.fetch.klines))
              /\ s1_daily_low' = MinLow(relevant_klines(last'.fetch.klines)) ]_vars
    /\ [](FailedRefresh(last) => RefreshDue)
    /\ [][ RefreshDue =>
              /\ ~RefreshDue' => (last'.op = "update" /\ last'.ok)
              /\ (last'.op = "update" /\ last' # last) => last'.fetched ]_vars
    /\ <>[]BandSet
    /\ [](BandSet =>
             \A outcome \in OutcomeTable[s1_daily_high, s1_daily_low] :
                 outcome.price # Unread)

\* a refresh that failed on a malformed low after the high was assigned: the
\* band is still unset, the timestamp is the initial one and the gate is open
C24_Witness ==
    /\ FailedRefresh(last)
    /\ s1_daily_high # None
    /\ s1_daily_low = None
    /\ s1_last_data_update_ts = 0
    /\ RefreshDue

=============================================================================
